---- MODULE Spec2Model ----
(***************************************************************************)
(* AppView (frontend/app/src/components/AppView/AppView.tsx): the layout   *)
(* shell of the app.  The model covers the function component's render    *)
(* (its booleans and the element tree it returns), its one piece of hook  *)
(* state (showSidebarOverride), its three passive effects with their      *)
(* dependency lists and cleanups, and the two event sources that call     *)
(* back into it: the window's hashchange event and the script-finished    *)
(* callbacks.                                                              *)
(*                                                                         *)
(* React runs a component in steps: a render commits a tree and leaves    *)
(* its passive effects (useEffect) pending; the effects are flushed in a  *)
(* later task, cleanups first; a state update made by an effect or a      *)
(* callback schedules another render.  Browser events and script-finished *)
(* callbacks are tasks of their own and may run between a commit and the  *)
(* flush of its effects, where they meet the listeners and handlers       *)
(* subscribed by the previous flush.                                      *)
(***************************************************************************)
EXTENDS Integers, Sequences, FiniteSets, TLC

VARIABLES
    mounted,              \* an AppView instance is mounted
    props,                \* the props of the latest render
    showSidebarOverride,  \* the useState value, as the next render will read it
    view,                 \* what the latest render computed and returned
    effectsPending,       \* the latest commit's passive effects are not flushed yet
    renderScheduled,      \* a state update has scheduled a re-render
    effects,              \* per effect: the deps it last ran with, and its cleanup
    hashListeners,        \* window's "hashchange" listeners added by AppView
    scriptFinishedHandlers, \* handlers AppView added and has not removed
    locationHash,         \* window.location.hash
    sent,                 \* the calls of sendMessageToHost made by the latest step
    setCalls,             \* effect calls of setShowSidebarOverride since the props changed
    clearedByEvent,       \* a script-finished event cleared the override since the props changed
    setAfterClear         \* the effect set the override again after such a clear

vars == <<mounted, props, showSidebarOverride, view, effectsPending, renderScheduled,
          effects, hashListeners, scriptFinishedHandlers, locationHash, sent,
          setCalls, clearedByEvent, setAfterClear>>

-----------------------------------------------------------------------------
(* Bounds and input sets of the model *)

MaxPages == 2
MaxMain == 1
MaxSetCalls == 3

ElementTypes == {"chatInput", "markdown"}
HostFns == {"hostA", "hostB"}
Hashes == {"#a", "#b"}
FnIds == 0..3

None == [id |-> -1]

-----------------------------------------------------------------------------
(* The props AppView reads *)

RECURSIVE SeqsUpTo(_, _)
SeqsUpTo(S, n) ==
    IF n = 0 THEN {<<>>}
    ELSE LET shorter == SeqsUpTo(S, n - 1)
         IN  shorter \cup {Append(s, x) : s \in {t \in shorter : Len(t) = n - 1}, x \in S}

PageLists == {[i \in 1..n |-> [pageName |-> i]] : n \in 0..MaxPages}

MainNodes == SeqsUpTo([type : ElementTypes], MaxMain)

AppRoots == [sidebar : [isEmpty : BOOLEAN], main : MainNodes, event : [isEmpty : BOOLEAN]]

AppViewProps ==
    [elements : AppRoots, appPages : PageLists, hideSidebarNav : BOOLEAN,
     sendMessageToHost : HostFns]

DefaultProps ==
    [elements |-> [sidebar |-> [isEmpty |-> TRUE], main |-> <<>>, event |-> [isEmpty |-> TRUE]],
     appPages |-> <<>>, hideSidebarNav |-> FALSE, sendMessageToHost |-> "hostA"]

-----------------------------------------------------------------------------
(* The render function: the booleans it computes and the tree it returns *)

HasSidebarElements(p) == ~p.elements.sidebar.isEmpty

HasEventElements(p) == ~p.elements.event.isEmpty

\* Faulty variant of ShowSidebar: the negation of hideSidebarNav is lost.
ShowSidebarNavUnnegated(p, override) ==
    \/ HasSidebarElements(p)
    \/ (p.hideSidebarNav /\ Len(p.appPages) > 1)
    \/ override

ShowSidebar(p, override) ==
    \/ HasSidebarElements(p)
    \/ (~p.hideSidebarNav /\ Len(p.appPages) > 1)
    \/ override

\* Faulty variant of ContainsChatInput: compares with the proto's snake-case name.
ContainsChatInputWrongType(p) ==
    \E i \in 1..Len(p.elements.main) : p.elements.main[i].type = "chat_input"

ContainsChatInput(p) ==
    \E i \in 1..Len(p.elements.main) : p.elements.main[i].type = "chatInput"

Component(p) ==
    IF ContainsChatInput(p) THEN "ScrollToBottomContainer" ELSE "StyledAppViewMain"

\* Faulty variant of Tree: the event overlay nested in the sidebar's condition.
TreeEventInsideSidebar(p, override) ==
    [sidebar |-> ShowSidebar(p, override),
     main    |-> [component |-> Component(p), anchor |-> ~ContainsChatInput(p)],
     event   |-> ShowSidebar(p, override) /\ HasEventElements(p)]

\* The children of StyledAppViewContainer, in the order of the JSX.
Tree(p, override) ==
    [sidebar |-> ShowSidebar(p, override),
     main    |-> [component |-> Component(p), anchor |-> ~ContainsChatInput(p)],
     event   |-> HasEventElements(p)]

\* A function object created by a render or an effect is distinct from every
\* function object still referenced.
FreshId(used) == CHOOSE i \in FnIds : i \notin used /\ \A j \in FnIds : j \notin used => i <= j

Ids(fns) == {fns[i].id : i \in 1..Len(fns)}

\* React.useCallback(fn, [hasSidebarElements, showSidebarOverride]): the previous
\* function while the deps are unchanged, a new closure over the render's values
\* otherwise.
UseCallback(prev, p, override, used) ==
    IF /\ prev # None
       /\ prev.hasSidebarElements = HasSidebarElements(p)
       /\ prev.showSidebarOverride = override
    THEN prev
    ELSE [id |-> FreshId(used),
          hasSidebarElements |-> HasSidebarElements(p),
          showSidebarOverride |-> override]

Render(p, override, prev, used) ==
    [showSidebarOverride   |-> override,
     showSidebar           |-> ShowSidebar(p, override),
     scriptFinishedHandler |-> UseCallback(prev, p, override, used),
     tree                  |-> Tree(p, override)]

NoView ==
    [showSidebarOverride |-> FALSE, showSidebar |-> FALSE,
     scriptFinishedHandler |-> None,
     tree |-> [sidebar |-> FALSE, main |-> [component |-> "none", anchor |-> FALSE],
               event |-> FALSE]]

NoEffects ==
    [hashchange |-> [ran |-> FALSE, deps |-> <<>>, cleanup |-> None],
     override   |-> [ran |-> FALSE, deps |-> <<>>],
     handler    |-> [ran |-> FALSE, deps |-> <<>>, cleanup |-> None]]

-----------------------------------------------------------------------------
(* The three passive effects *)

\* removeEventListener / removeScriptFinishedHandler: takes out the function
\* object it is given, and nothing else.
RemoveFn(fns, f) == SelectSeq(fns, LAMBDA x : x # f)

DepsChanged(effect, deps) == ~effect.ran \/ effect.deps # deps

\* Faulty variant of HashchangeDeps: an empty dependency list.
HashchangeDepsEmpty == <<>>

\* useEffect(..., [sendMessageToHost]): the listener closes over the prop.
HashchangeDeps == <<props.sendMessageToHost>>

\* The listener the effect body creates: a new function object, distinct from
\* the listeners registered when the body runs.
NewListener(listeners) ==
    [id |-> FreshId(Ids(listeners)), sendMessageToHost |-> props.sendMessageToHost]

\* Faulty variant of HashchangeCleanup: the effect returns no cleanup.
HashchangeCleanupMissing(listeners) == listeners

HashchangeCleanup(listeners) == RemoveFn(listeners, effects.hashchange.cleanup)

HashchangeEffect(listeners) == Append(listeners, NewListener(listeners))

\* The listener's body: one call of the sendMessageToHost it closes over.
Listener(l) ==
    [fn |-> l.sendMessageToHost,
     message |-> [type |-> "UPDATE_HASH", hash |-> locationHash']]

\* Faulty variant of OverrideDeps: showSidebar missing from the list.
OverrideDepsWithoutShowSidebar == <<props.hideSidebarNav, view.showSidebarOverride>>

\* useEffect(..., [showSidebar, hideSidebarNav, showSidebarOverride])
OverrideDeps == <<view.showSidebar, props.hideSidebarNav, view.showSidebarOverride>>

OverrideEffectSets ==
    view.showSidebar /\ props.hideSidebarNav /\ ~view.showSidebarOverride

\* scriptFinishedHandler's body, with the values of the render that created it.
HandlerClears(h) == ~h.hasSidebarElements /\ h.showSidebarOverride

\* useEffect(..., [scriptFinishedHandler, addScriptFinishedHandler,
\* removeScriptFinishedHandler]); the two context functions are stable.
HandlerDeps == <<view.scriptFinishedHandler>>

\* Faulty variant of HandlerCleanup: removes the latest render's handler
\* instead of the one the effect added.
HandlerCleanupOfCurrent(handlers) == RemoveFn(handlers, view.scriptFinishedHandler)

HandlerCleanup(handlers) == RemoveFn(handlers, effects.handler.cleanup)

HandlerEffect(handlers) == Append(handlers, view.scriptFinishedHandler)

\* The props the sidebar decision reads.
SidebarProps(p) == <<HasSidebarElements(p), p.hideSidebarNav, p.appPages>>

-----------------------------------------------------------------------------
(* Initial state: no AppView is mounted *)

Init ==
    /\ mounted = FALSE
    /\ props = DefaultProps
    /\ showSidebarOverride = FALSE
    /\ view = NoView
    /\ effectsPending = FALSE
    /\ renderScheduled = FALSE
    /\ effects = NoEffects
    /\ hashListeners = <<>>
    /\ scriptFinishedHandlers = <<>>
    /\ locationHash \in Hashes
    /\ sent = <<>>
    /\ setCalls = 0
    /\ clearedByEvent = FALSE
    /\ setAfterClear = FALSE

-----------------------------------------------------------------------------
(* Steps *)

\* The first render of a new instance: useState(false), nothing memoized.
Mount(p) ==
    /\ ~mounted
    /\ ~effectsPending
    /\ mounted' = TRUE
    /\ props' = p
    /\ showSidebarOverride' = FALSE
    /\ view' = Render(p, FALSE, None, Ids(scriptFinishedHandlers))
    /\ effectsPending' = TRUE
    /\ renderScheduled' = FALSE
    /\ sent' = <<>>
    /\ setCalls' = 0
    /\ clearedByEvent' = FALSE
    /\ setAfterClear' = FALSE
    /\ UNCHANGED <<effects, hashListeners, scriptFinishedHandlers, locationHash>>

\* A render of the mounted instance with the props p and the current state.
\* React flushes the pending passive effects before it renders again.
RenderWith(p) ==
    /\ ~effectsPending
    /\ props' = p
    /\ view' = Render(p, showSidebarOverride, view.scriptFinishedHandler,
                      Ids(scriptFinishedHandlers) \cup {view.scriptFinishedHandler.id})
    /\ effectsPending' = TRUE
    /\ renderScheduled' = FALSE
    /\ sent' = <<>>
    /\ IF SidebarProps(p) # SidebarProps(props)
       THEN setCalls' = 0 /\ clearedByEvent' = FALSE /\ setAfterClear' = FALSE
       ELSE UNCHANGED <<setCalls, clearedByEvent, setAfterClear>>
    /\ UNCHANGED <<mounted, showSidebarOverride, effects, hashListeners,
                   scriptFinishedHandlers, locationHash>>

\* The parent renders AppView with new props.
Rerender(p) == mounted /\ RenderWith(p)

\* The re-render a state update scheduled.
StateRerender == mounted /\ renderScheduled /\ RenderWith(props)

\* The flush of the passive effects of the latest commit: the cleanups of the
\* effects whose deps changed, then those effects.
FlushEffects ==
    /\ mounted
    /\ effectsPending
    /\ LET hashRuns     == DepsChanged(effects.hashchange, HashchangeDeps)
           overrideRuns == DepsChanged(effects.override, OverrideDeps)
           handlerRuns  == DepsChanged(effects.handler, HandlerDeps)
           setsOverride == overrideRuns /\ OverrideEffectSets
       IN  /\ hashListeners' =
                 IF hashRuns THEN HashchangeEffect(HashchangeCleanup(hashListeners))
                 ELSE hashListeners
           /\ scriptFinishedHandlers' =
                 IF handlerRuns THEN HandlerEffect(HandlerCleanup(scriptFinishedHandlers))
                 ELSE scriptFinishedHandlers
           /\ effects' =
                 [hashchange |->
                      IF hashRuns
                      THEN [ran |-> TRUE, deps |-> HashchangeDeps,
                            cleanup |-> NewListener(HashchangeCleanup(hashListeners))]
                      ELSE effects.hashchange,
                  override |->
                      IF overrideRuns THEN [ran |-> TRUE, deps |-> OverrideDeps]
                      ELSE effects.override,
                  handler |->
                      IF handlerRuns
                      THEN [ran |-> TRUE, deps |-> HandlerDeps,
                            cleanup |-> view.scriptFinishedHandler]
                      ELSE effects.handler]
           /\ showSidebarOverride' = IF setsOverride THEN TRUE ELSE showSidebarOverride
           /\ renderScheduled' = (renderScheduled \/ (setsOverride /\ ~showSidebarOverride))
           /\ setCalls' =
                 IF setsOverride /\ setCalls < MaxSetCalls THEN setCalls + 1 ELSE setCalls
           /\ setAfterClear' = (setAfterClear \/ (setsOverride /\ clearedByEvent))
    /\ effectsPending' = FALSE
    /\ sent' = <<>>
    /\ UNCHANGED <<mounted, props, view, locationHash, clearedByEvent>>

\* AppView is removed from the tree; its state is dropped and the cleanups of
\* its passive effects are left to the next flush.
Unmount ==
    /\ mounted
    /\ ~effectsPending
    /\ mounted' = FALSE
    /\ props' = DefaultProps
    /\ showSidebarOverride' = FALSE
    /\ view' = NoView
    /\ effectsPending' = TRUE
    /\ renderScheduled' = FALSE
    /\ sent' = <<>>
    /\ setCalls' = 0
    /\ clearedByEvent' = FALSE
    /\ setAfterClear' = FALSE
    /\ UNCHANGED <<effects, hashListeners, scriptFinishedHandlers, locationHash>>

\* The flush after an unmount: every effect's cleanup.
FlushUnmount ==
    /\ ~mounted
    /\ effectsPending
    /\ hashListeners' = HashchangeCleanup(hashListeners)
    /\ scriptFinishedHandlers' = HandlerCleanup(scriptFinishedHandlers)
    /\ effects' = NoEffects
    /\ effectsPending' = FALSE
    /\ sent' = <<>>
    /\ UNCHANGED <<mounted, props, showSidebarOverride, view, renderScheduled,
                   locationHash, setCalls, clearedByEvent, setAfterClear>>

\* The browser changes the fragment to h and dispatches "hashchange" to the
\* listeners registered on window.
HashChange(h) ==
    /\ h # locationHash
    /\ locationHash' = h
    /\ sent' = [i \in 1..Len(hashListeners) |-> Listener(hashListeners[i])]
    /\ UNCHANGED <<mounted, props, showSidebarOverride, view, effectsPending,
                   renderScheduled, effects, hashListeners, scriptFinishedHandlers,
                   setCalls, clearedByEvent, setAfterClear>>

\* The host runtime reports the end of a script run: every registered handler
\* is called.  A state update on an unmounted instance is dropped.
ScriptFinished ==
    /\ LET clears == mounted /\ \E i \in 1..Len(scriptFinishedHandlers) :
                                    HandlerClears(scriptFinishedHandlers[i])
       IN  /\ showSidebarOverride' = IF clears THEN FALSE ELSE showSidebarOverride
           /\ renderScheduled' = (renderScheduled \/ (clears /\ showSidebarOverride))
           /\ clearedByEvent' = (clearedByEvent \/ (clears /\ showSidebarOverride))
    /\ sent' = <<>>
    /\ UNCHANGED <<mounted, props, view, effectsPending, effects, hashListeners,
                   scriptFinishedHandlers, locationHash, setCalls, setAfterClear>>

Next ==
    \/ \E p \in AppViewProps : Mount(p)
    \/ \E p \in AppViewProps : Rerender(p)
    \/ StateRerender
    \/ FlushEffects
    \/ Unmount
    \/ FlushUnmount
    \/ \E h \in Hashes : HashChange(h)
    \/ ScriptFinished

Spec == Init /\ [][Next]_vars

-----------------------------------------------------------------------------
(* Claims *)

\* C1 as stated: in every render the sidebar is rendered when the sidebar
\* region is non-empty or more than one page exists, whatever hideSidebarNav
\* and showSidebarOverride are.
C1_AsStated ==
    (mounted /\ (HasSidebarElements(props) \/ Len(props.appPages) > 1))
        => view.tree.sidebar

\* C1 (amended): in every render the sidebar is rendered when the sidebar
\* region is non-empty, or more than one page exists and hideSidebarNav is
\* false, whatever showSidebarOverride is.
C1_SidebarShown ==
    (mounted /\ (\/ HasSidebarElements(props)
                 \/ (~props.hideSidebarNav /\ Len(props.appPages) > 1)))
        => view.tree.sidebar

C1_Witness ==
    /\ mounted
    /\ ~HasSidebarElements(props)
    /\ ~props.hideSidebarNav
    /\ Len(props.appPages) > 1
    /\ ~view.showSidebarOverride
    /\ view.tree.sidebar

\* C5: the main region is rendered in every render, the event overlay exactly
\* when the event region is non-empty, the sidebar exactly when showSidebar is
\* true; and the decision for one region is the same for every emptiness of
\* the other regions.
C5_ThreeRegions ==
    mounted =>
        /\ view.tree.main.component \in {"ScrollToBottomContainer", "StyledAppViewMain"}
        /\ view.tree.event = ~props.elements.event.isEmpty
        /\ view.tree.sidebar = view.showSidebar
        /\ \A b \in BOOLEAN, m \in MainNodes :
              /\ Tree([props EXCEPT !.elements.event.isEmpty = b, !.elements.main = m],
                      view.showSidebarOverride).sidebar = view.tree.sidebar
              /\ Tree([props EXCEPT !.elements.sidebar.isEmpty = b, !.elements.main = m],
                      view.showSidebarOverride).event = view.tree.event

C5_Witness ==
    /\ mounted
    /\ props.elements.main = <<>>
    /\ props.elements.sidebar.isEmpty
    /\ ~props.elements.event.isEmpty
    /\ view.tree.event
    /\ ~view.tree.sidebar
    /\ view.tree.main.component = "StyledAppViewMain"

\* C6: the main region is the scroll-to-bottom container exactly when some
\* element of the main region has type "chatInput", and the plain container
\* otherwise; the iframe-resizer anchor is rendered exactly when there is no
\* such element, so never together with the scroll-to-bottom container.
C6_ChatInput ==
    mounted =>
        LET chatInputs == {i \in DOMAIN props.elements.main :
                               props.elements.main[i].type = "chatInput"}
        IN  /\ (view.tree.main.component = "ScrollToBottomContainer") = (chatInputs # {})
            /\ (view.tree.main.component = "StyledAppViewMain") = (chatInputs = {})
            /\ view.tree.main.anchor = (chatInputs = {})
            /\ ~(view.tree.main.anchor /\ view.tree.main.component = "ScrollToBottomContainer")

C6_Witness ==
    /\ mounted
    /\ Len(props.elements.main) >= 1
    /\ props.elements.main[Len(props.elements.main)].type = "chatInput"
    /\ view.tree.main.component = "ScrollToBottomContainer"
    /\ ~view.tree.main.anchor

UpdateHash == [type |-> "UPDATE_HASH", hash |-> locationHash']

HashChangeStep == \E h \in Hashes : HashChange(h)

\* C2 as stated: while AppView is mounted, every hashchange event causes
\* exactly one call of sendMessageToHost, with the UPDATE_HASH message carrying
\* window.location.hash; sendMessageToHost is called at no other time and with
\* no other message.
C2_AsStated ==
    [][/\ (mounted /\ HashChangeStep) => (Len(sent') = 1 /\ sent'[1].message = UpdateHash)
       /\ (sent' # <<>>) => HashChangeStep]_vars

\* C2 (amended): while AppView is mounted and the effects of its first
\* render have run, every hashchange event causes exactly one call of
\* sendMessageToHost, with the UPDATE_HASH message carrying
\* window.location.hash as it is when the event is handled, and once the
\* effects of the latest render have run the call is made on the current
\* sendMessageToHost prop; no event causes more than one call;
\* sendMessageToHost is called at no other time and with no other message.
C2_HashForwarded ==
    [][/\ (mounted /\ effects.hashchange.ran /\ HashChangeStep) =>
              (Len(sent') = 1 /\ sent'[1].message = UpdateHash)
       /\ (mounted /\ ~effectsPending /\ HashChangeStep) =>
              sent' = <<[fn |-> props.sendMessageToHost, message |-> UpdateHash]>>
       /\ HashChangeStep =>
              (Len(sent') <= 1 /\ \A i \in 1..Len(sent') : sent'[i].message = UpdateHash)
       /\ (sent' # <<>>) => HashChangeStep]_vars

C2_Witness ==
    /\ mounted
    /\ ~effectsPending
    /\ props.sendMessageToHost = "hostB"
    /\ sent = <<[fn |-> "hostB", message |-> [type |-> "UPDATE_HASH", hash |-> locationHash]]>>

\* C3: once effects have run, exactly one hashchange listener of AppView is
\* registered on window while it is mounted, the one that closes over the
\* current sendMessageToHost, and none after it is unmounted; at no time are
\* two registered.
C3_OneListener ==
    /\ Len(hashListeners) <= 1
    /\ ~effectsPending =>
          IF mounted
          THEN /\ Len(hashListeners) = 1
               /\ hashListeners[1].sendMessageToHost = props.sendMessageToHost
               /\ effects.hashchange.cleanup = hashListeners[1]
          ELSE hashListeners = <<>>

C3_Witness ==
    /\ mounted
    /\ ~effectsPending
    /\ props.sendMessageToHost = "hostB"
    /\ effects.hashchange.deps = <<"hostB">>
    /\ hashListeners = <<[id |-> 0, sendMessageToHost |-> "hostB"]>>
    /\ view.scriptFinishedHandler.id = 1

\* C4: every handler AppView adds is removed, as the same function, before
\* another is added or when the component unmounts: at most one handler is
\* registered at any time, the cleanup in force removes exactly the registered
\* one, and once effects have run the registered handler is the one of the
\* latest render while mounted and none after unmount.
C4_OneHandler ==
    /\ Len(scriptFinishedHandlers) <= 1
    /\ effects.handler.ran => scriptFinishedHandlers = <<effects.handler.cleanup>>
    /\ ~effects.handler.ran => scriptFinishedHandlers = <<>>
    /\ ~effectsPending =>
          IF mounted
          THEN scriptFinishedHandlers = <<view.scriptFinishedHandler>>
          ELSE scriptFinishedHandlers = <<>>

C4_Witness ==
    /\ mounted
    /\ ~effectsPending
    /\ view.scriptFinishedHandler.id = 1
    /\ view.scriptFinishedHandler.showSidebarOverride
    /\ scriptFinishedHandlers = <<view.scriptFinishedHandler>>

C8_ClearedAtScriptEnd ==
    [][/\ (mounted /\ ScriptFinished) =>
              IF HasSidebarElements(props)
              THEN showSidebarOverride' = showSidebarOverride
              ELSE ~showSidebarOverride'
       /\ (/\ mounted'
           /\ ~HasSidebarElements(props')
           /\ ~view'.showSidebarOverride
           /\ (props'.hideSidebarNav \/ Len(props'.appPages) <= 1)) => ~view'.tree.sidebar]_vars

\* C9: with the props held fixed the override effect calls
\* setShowSidebarOverride at most once, and a script-finished event that
\* clears the override is never followed by the effect setting it again under
\* the same props.
C9_Stabilises == setCalls <= 1 /\ ~setAfterClear

====
